---- MODULE Spec2Model ----
(***************************************************************************)
(* The metrics and streaming core of the monitoring dashboard server       *)
(* (src/unnamed/part_000): the process-wide request counters, the two      *)
(* sliding-window timestamp lists, getSnapshot, the request handler with   *)
(* its five routes, and the per-subscriber setInterval timers of /events.  *)
(*                                                                         *)
(* Node runs every handler and every timer callback to completion, so each *)
(* handler is one atomic action.  Time is the value of Date.now() in ms,   *)
(* counted from process start.                                             *)
(***************************************************************************)
EXTENDS Integers, Sequences, FiniteSets, TLC

VARIABLES
  now,                 \* Date.now()
  requestCount,        \* part_000:12
  totalResponseTime,   \* part_000:13
  lastRequestTime,     \* part_000:14
  minResponseTime,     \* part_000:15
  maxResponseTime,     \* part_000:16
  errorCount,          \* part_000:17
  activeConnections,   \* part_000:19
  lastCpu,             \* part_000:11
  totalBytesReceived,  \* part_000:20
  totalBytesSent,      \* part_000:21
  statusCodeCounts,    \* part_000:22
  requestsPerEndpoint, \* part_000:23
  lastMinuteRequests,  \* part_000:24
  lastHourRequests,    \* part_000:25
  connects,            \* number of /events requests handled so far
  timer,               \* per subscriber: the setInterval handle of its closure
  due,                 \* per subscriber: the time its timer fires next
  closed,              \* per subscriber: req has emitted "close"
  frames,              \* per subscriber: number of res.write calls on its stream
  lastSnapshot,        \* the value returned by the latest getSnapshot call
  lastWrite,           \* the subscriber the latest snapshot was written to (0: a response body)
  builds,              \* number of getSnapshot calls so far
  completed,           \* elapsed times of the requests answered so far, in order
  preConnect,          \* per subscriber: activeConnections just before its connect
  othersSince,         \* per subscriber: net connects minus closes of others since its connect
  broken,              \* per subscriber: its socket has failed (writes to it fail)
  call,                \* a function applied on its own: its name and arguments
  ret,                 \* the value that application returned
  osCpus,              \* what os.cpus() returns now: the tick counters of each core
  ended                \* number of requests whose req has emitted "end"

vars == <<now, requestCount, totalResponseTime, lastRequestTime, minResponseTime,
          maxResponseTime, errorCount, activeConnections, totalBytesSent,
          statusCodeCounts, requestsPerEndpoint, lastMinuteRequests,
          lastHourRequests, connects, timer, due, closed, frames, lastSnapshot,
          lastWrite, builds, completed, preConnect, othersSince, broken, call,
          ret, lastCpu, totalBytesReceived, osCpus, ended>>

\* the state of the server and the transport: all but the functions applied on
\* their own and the counters of the OS
serverVars ==
  <<now, requestCount, totalResponseTime, lastRequestTime, minResponseTime,
    maxResponseTime, errorCount, activeConnections, totalBytesSent,
    statusCodeCounts, requestsPerEndpoint, lastMinuteRequests,
    lastHourRequests, connects, timer, due, closed, frames, lastSnapshot,
    lastWrite, builds, completed, preConnect, othersSince, broken, lastCpu,
    totalBytesReceived, ended>>

(* ------------------------------ bounds -------------------------------- *)

MaxRequests == 3
MaxSubs == 2
MaxNow == 4040
MaxCount == 16       \* the counters of a snapshot built on its own
MaxCores == 2        \* the cores os.cpus() reports

Subs == 1..MaxSubs

\* elapsed times a handler may take (Date.now() - start)
ElapsedTimes == {0, 10}

\* idle time between two events of the loop
TimeSteps == {2000}

Urls == {"/", "/dashboard", "/events", "/api/snapshot", "/health", "/nope"}

(* ----------------------------- constants ------------------------------ *)

Infinity == 999999999
Null == -1
MinuteWindow == 60000
HourWindow == 3600000
Interval == 2000
FrameOverhead == 8
HtmlBytes == 43000
SnapshotBytes == 1500
EntryBytes == 8
HealthBytes == 70
NotFoundBytes == 36  \* {"error":"Not Found","path":"/nope"}

(* ------------------------------ helpers ------------------------------- *)

\* Math.round(a / b) for a >= 0, b > 0: halves round up
MathRound(a, b) == (2 * a + b) \div (2 * b)

MathMin(a, b) == IF a < b THEN a ELSE b

\* pct cutting the digits after the first decimal instead of rounding
pctTruncated(a, b) == IF b # 0 THEN (1000 * a) \div b ELSE 0

\* pct with toFixed(0): the percentage as a whole number
pctWholeNumber(a, b) == IF b # 0 THEN 10 * MathRound(100 * a, b) ELSE 0

\* pct = (a, b) => b ? ((a / b) * 100).toFixed(1) : 0, for a >= 0: the
\* percentage with one decimal, held as its number of tenths ("66.7" is 667);
\* toFixed picks the nearest decimal and the larger one on a tie
pct(a, b) == IF b # 0 THEN MathRound(1000 * a, b) ELSE 0

MathMax(a, b) == IF a > b THEN a ELSE b

\* the sum of a list of numbers
RECURSIVE SeqSum(_)
SeqSum(q) == IF q = <<>> THEN 0 ELSE Head(q) + SeqSum(Tail(q))

\* obj[key] = (obj[key] || 0) + 1: the key appears on its first occurrence
Incr(obj, key) ==
  IF key \in DOMAIN obj THEN [obj EXCEPT ![key] = @ + 1] ELSE obj @@ (key :> 1)

\* the module-level metrics as one value, so that a handler's steps compose
Metrics ==
  [requestCount |-> requestCount,
   totalResponseTime |-> totalResponseTime,
   lastRequestTime |-> lastRequestTime,
   minResponseTime |-> minResponseTime,
   maxResponseTime |-> maxResponseTime,
   errorCount |-> errorCount,
   activeConnections |-> activeConnections,
   lastCpu |-> lastCpu,
   totalBytesReceived |-> totalBytesReceived,
   totalBytesSent |-> totalBytesSent,
   statusCodeCounts |-> statusCodeCounts,
   requestsPerEndpoint |-> requestsPerEndpoint,
   lastMinuteRequests |-> lastMinuteRequests,
   lastHourRequests |-> lastHourRequests]

\* the assignment of a handler's final metrics to the module-level variables
Commit(M) ==
  /\ requestCount' = M.requestCount
  /\ totalResponseTime' = M.totalResponseTime
  /\ lastRequestTime' = M.lastRequestTime
  /\ minResponseTime' = M.minResponseTime
  /\ maxResponseTime' = M.maxResponseTime
  /\ errorCount' = M.errorCount
  /\ activeConnections' = M.activeConnections
  /\ lastCpu' = M.lastCpu
  /\ totalBytesReceived' = M.totalBytesReceived
  /\ totalBytesSent' = M.totalBytesSent
  /\ statusCodeCounts' = M.statusCodeCounts
  /\ requestsPerEndpoint' = M.requestsPerEndpoint
  /\ lastMinuteRequests' = M.lastMinuteRequests
  /\ lastHourRequests' = M.lastHourRequests

(* ----------------------------- cpu sampler ---------------------------- *)

\* the ticks a core has counted, all modes together
TickCounts == {0, 1}

\* the ticks of one core, all modes together
timesTotal(t) == t.user + t.sys + t.idle + t.nice + t.irq

\* cpuUsage that leaves lastCpu as it was
cpuUsageKeepsLast(stored, cpus) ==
  LET prev(i) == IF i \in DOMAIN stored THEN stored[i] ELSE cpus[i]
      idle == SeqSum([i \in 1..Len(cpus) |-> cpus[i].idle - prev(i).idle])
      total == SeqSum([i \in 1..Len(cpus) |->
                         timesTotal(cpus[i]) - timesTotal(prev(i))])
  IN  [value |-> IF total > 0 THEN MathRound(100 * (total - idle), total) ELSE 0,
       lastCpu |-> stored]

\* cpuUsage with stored the value of lastCpu (the reading kept by the previous
\* call, or the one taken when the script was loaded) and cpus the
\* reading os.cpus() returns now (one record of tick counters per core): the
\* busy share of the ticks in between, and the reading it stores
cpuUsage(stored, cpus) ==
  LET prev(i) == IF i \in DOMAIN stored THEN stored[i] ELSE cpus[i]
      idle == SeqSum([i \in 1..Len(cpus) |-> cpus[i].idle - prev(i).idle])
      total == SeqSum([i \in 1..Len(cpus) |->
                         timesTotal(cpus[i]) - timesTotal(prev(i))])
  IN  [value |-> IF total > 0 THEN MathRound(100 * (total - idle), total) ELSE 0,
       lastCpu |-> cpus]

(* --------------------------- health classifier ------------------------ *)

\* getHealthStatus with thresholds that include their own value
getHealthStatusInclusive(cpu, memPct, diskPct) ==
  IF cpu >= 90 \/ memPct >= 90 \/ diskPct >= 95
    THEN [status |-> "CRITICAL", color |-> "#ef4444"]
  ELSE IF cpu >= 70 \/ memPct >= 70 \/ diskPct >= 80
    THEN [status |-> "WARNING", color |-> "#f59e0b"]
  ELSE [status |-> "HEALTHY", color |-> "#22c55e"]

\* getHealthStatus over three percentages
getHealthStatus(cpu, memPct, diskPct) ==
  IF cpu > 90 \/ memPct > 90 \/ diskPct > 95
    THEN [status |-> "CRITICAL", color |-> "#ef4444"]
  ELSE IF cpu > 70 \/ memPct > 70 \/ diskPct > 80
    THEN [status |-> "WARNING", color |-> "#f59e0b"]
  ELSE [status |-> "HEALTHY", color |-> "#22c55e"]

(* ------------------------------ snapshot ------------------------------ *)

\* cleanupOldRequests that counts an error as well
cleanupOldRequestsCountsError(M, t) ==
  [M EXCEPT
     !.lastMinuteRequests = SelectSeq(@, LAMBDA x : t - x < MinuteWindow),
     !.lastHourRequests = SelectSeq(@, LAMBDA x : t - x < HourWindow),
     !.errorCount = @ + 1]

\* cleanupOldRequests with the two windows taken for each other
cleanupOldRequestsSwapped(M, t) ==
  [M EXCEPT
     !.lastMinuteRequests = SelectSeq(@, LAMBDA x : t - x < HourWindow),
     !.lastHourRequests = SelectSeq(@, LAMBDA x : t - x < MinuteWindow)]

\* both lists keep the timestamps younger than their window
cleanupOldRequests(M, t) ==
  [M EXCEPT
     !.lastMinuteRequests = SelectSeq(@, LAMBDA x : t - x < MinuteWindow),
     !.lastHourRequests = SelectSeq(@, LAMBDA x : t - x < HourWindow)]

\* getSnapshot at time t from metrics M: the snapshot it returns (its request,
\* response-time, error and connection fields, the rates in tenths of a
\* percent) and the metrics it leaves
getSnapshot(M, t) ==
  LET C == cleanupOldRequests(M, t)
      cpu == cpuUsage(C.lastCpu, osCpus)
  IN
  [value |->
     [timestamp |-> t,
      cpu |-> cpu.value,
      totalRequests |-> C.requestCount,
      rpm |-> Len(C.lastMinuteRequests),
      rph |-> Len(C.lastHourRequests),
      avgResponseMs |->
        IF C.requestCount # 0
          THEN MathRound(C.totalResponseTime, C.requestCount) ELSE 0,
      minResponseMs |->
        IF C.minResponseTime = Infinity THEN 0 ELSE C.minResponseTime,
      maxResponseMs |-> C.maxResponseTime,
      totalResponseTime |-> C.totalResponseTime,
      errorCount |-> C.errorCount,
      successCount |-> C.requestCount - C.errorCount,
      errorRate |-> pct(C.errorCount, C.requestCount),
      successRate |-> pct(C.requestCount - C.errorCount, C.requestCount),
      activeConnections |-> C.activeConnections,
      bytesSentRaw |-> C.totalBytesSent,
      statusCodes |-> C.statusCodeCounts,
      endpoints |-> C.requestsPerEndpoint,
      bytesReceivedRaw |-> C.totalBytesReceived,
      lastRequest |-> C.lastRequestTime],
   metrics |-> [C EXCEPT !.lastCpu = cpu.lastCpu]]

\* the object getSnapshot returned earlier, as its holder reads it when the
\* two maps stand at codes and endpoints: its statusCodes and endpoints fields
\* are the module's own statusCodeCounts and requestsPerEndpoint objects (not
\* copies), which the handler updates in place; the other fields are values
readSnapshot(snapshot, codes, endpoints) ==
  IF "statusCodes" \in DOMAIN snapshot
    THEN [snapshot EXCEPT !.statusCodes = codes, !.endpoints = endpoints]
    ELSE snapshot

\* diskUsage over the outcome df of execSync("df -k / 2>/dev/null || echo
\* '0 0 0 0 0%'"): a table whose second line is parsed, the one-line fallback
\* of the shell (its second line is empty, out[4].replace throws and is
\* caught) or an exception of execSync (caught)
diskUsage(df) ==
  IF df.kind = "table"
    THEN [total |-> df.total * 1024, used |-> df.used * 1024,
          free |-> (df.total - df.used) * 1024, percent |-> df.percent]
    ELSE [total |-> 0, used |-> 0, free |-> 0, percent |-> 0]

\* getNetworkInfo over the outcome of os.networkInterfaces(): the external
\* addresses, or the exception of the query, which nothing catches
getNetworkInfo(interfaces) ==
  IF interfaces.kind = "throws"
    THEN [threw |-> TRUE]
    ELSE [threw |-> FALSE,
          value |-> SelectSeq(interfaces.addrs, LAMBDA a : ~a.internal)]

\* one minute of process uptime, in ms
UptimeMinute == 60000

\* the avgLifetimeRpm field of getSnapshot, in hundredths as toFixed(2) prints
\* it, with uptime the value of process.uptime() in ms: uptime / 60 || 1 is
\* uptime / 60 unless that is 0
avgLifetimeRpm(count, uptime) ==
  IF uptime # 0 THEN MathRound(100 * count * UptimeMinute, uptime)
  ELSE 100 * count

\* getSnapshot with its two host queries: getSnapshot(M, t) above is the
\* snapshot of a run in which both succeed, less the disk and network fields
getSnapshotOnHost(M, t, df, interfaces) ==
  LET disk == diskUsage(df)
      network == getNetworkInfo(interfaces)
  IN  IF network.threw
        THEN [threw |-> TRUE]
        ELSE [threw |-> FALSE,
              value |-> getSnapshot(M, t).value
                          @@ [disk |-> disk, network |-> network.value]]

\* Buffer.byteLength(JSON.stringify(snapshot)): grows with the entries of the
\* two maps the snapshot carries
byteLength(snapshot) ==
  SnapshotBytes + EntryBytes * (Cardinality(DOMAIN snapshot.statusCodes)
                                + Cardinality(DOMAIN snapshot.endpoints))

(* --------------------------- request handler -------------------------- *)

\* the byte length of the body handed to res.end by the branch that answers
\* url, snapshot being the snapshot that branch has built (if it builds one)
BodyBytes(url, snapshot) ==
  CASE url \in {"/", "/dashboard"} -> HtmlBytes
    [] url = "/api/snapshot" -> byteLength(snapshot)
    [] url = "/health" -> HealthBytes
    [] OTHER -> NotFoundBytes

\* the handler's first statements without the push to lastHourRequests
requestStartMinuteOnly(M, url, t) ==
  [M EXCEPT
     !.requestCount = @ + 1,
     !.lastRequestTime = t,
     !.lastMinuteRequests = Append(@, t),
     !.requestsPerEndpoint = Incr(@, url)]

\* the handler's first statements without the endpoint counter
requestStartNoEndpoint(M, url, t) ==
  [M EXCEPT
     !.requestCount = @ + 1,
     !.lastRequestTime = t,
     !.lastMinuteRequests = Append(@, t),
     !.lastHourRequests = Append(@, t)]

\* the handler's first statements, run for every request whatever its url
requestStart(M, url, t) ==
  [M EXCEPT
     !.requestCount = @ + 1,
     !.lastRequestTime = t,
     !.lastMinuteRequests = Append(@, t),
     !.lastHourRequests = Append(@, t),
     !.requestsPerEndpoint = Incr(@, url)]

\* recordElapsed with Math.min written for the maximum as well
recordElapsedMaxAsMin(M, elapsed) ==
  [M EXCEPT
     !.totalResponseTime = @ + elapsed,
     !.minResponseTime = MathMin(@, elapsed),
     !.maxResponseTime = MathMin(@, elapsed)]

\* const elapsed = Date.now() - start, added to the response-time statistics
recordElapsed(M, elapsed) ==
  [M EXCEPT
     !.totalResponseTime = @ + elapsed,
     !.minResponseTime = MathMin(@, elapsed),
     !.maxResponseTime = MathMax(@, elapsed)]

\* a request may be handled: the model's bounds on requests and on the clock
CanHandle(e) == requestCount < MaxRequests /\ now + e <= MaxNow

SubscribersUnchanged ==
  UNCHANGED <<connects, timer, due, closed, frames, preConnect, othersSince>>

\* subscriber s has connected and its close event has not been handled
Streaming(s) == s <= connects /\ ~closed[s]

\* a step of the server leaves the sockets' health and the functions applied
\* on their own as they are
EnvUnchanged == UNCHANGED <<broken, call, ret, osCpus, ended>>

\* GET / and GET /dashboard
HandleDashboard(url, e) ==
  /\ url \in {"/", "/dashboard"}
  /\ CanHandle(e)
  /\ LET M1 == requestStart(Metrics, url, now)
         M2 == [M1 EXCEPT !.totalBytesSent = @ + HtmlBytes,
                          !.statusCodeCounts = Incr(@, "200")]
     IN  Commit(recordElapsed(M2, e))
  /\ now' = now + e
  /\ completed' = Append(completed, e)
  /\ SubscribersUnchanged
  /\ UNCHANGED <<lastSnapshot, lastWrite, builds>>
  /\ EnvUnchanged

\* sendData writing its frame to every stream that has a timer, not to s alone
sendDataToAll(M, s) ==
  LET snap == getSnapshot(M, now) IN
  /\ Commit([snap.metrics EXCEPT !.totalBytesSent = @ + byteLength(snap.value) + FrameOverhead])
  /\ lastSnapshot' = snap.value
  /\ lastWrite' = s
  /\ frames' = [x \in Subs |-> IF x = s \/ timer[x] = "armed" THEN frames[x] + 1 ELSE frames[x]]
  /\ builds' = builds + 1

\* sendData with totalBytesSent assigned the frame's bytes, not increased by them
sendDataAssignsBytes(M, s) ==
  LET snap == getSnapshot(M, now) IN
  /\ Commit([snap.metrics EXCEPT !.totalBytesSent = byteLength(snap.value) + FrameOverhead])
  /\ lastSnapshot' = snap.value
  /\ lastWrite' = s
  /\ frames' = [frames EXCEPT ![s] = @ + 1]
  /\ builds' = builds + 1

\* sendData of subscriber s: one getSnapshot, one res.write of the frame
\* "data: <json>\n\n" to that subscriber's stream, then the byte count
sendData(M, s) ==
  LET snap == getSnapshot(M, now) IN
  /\ Commit([snap.metrics EXCEPT !.totalBytesSent = @ + byteLength(snap.value) + FrameOverhead])
  /\ lastSnapshot' = snap.value
  /\ lastWrite' = s
  /\ frames' = [frames EXCEPT ![s] = @ + 1]
  /\ builds' = builds + 1

\* the /events branch without its activeConnections++
countConnectionSkipped(M) == M

\* the /events branch recording a 200 like the answered routes do
countConnectionWithStatus(M) ==
  [M EXCEPT !.activeConnections = @ + 1, !.statusCodeCounts = Incr(@, "200")]

\* activeConnections++ at the head of the /events branch
countConnection(M) == [M EXCEPT !.activeConnections = @ + 1]

\* the /events branch arming the timer without the immediate sendData()
HandleEventsNoFirstSend ==
  LET s == connects + 1 IN
  /\ CanHandle(0)
  /\ connects < MaxSubs
  /\ Commit(countConnection(requestStart(Metrics, "/events", now)))
  /\ timer' = [timer EXCEPT ![s] = "armed"]
  /\ due' = [due EXCEPT ![s] = now + Interval]
  /\ connects' = s
  /\ preConnect' = [preConnect EXCEPT ![s] = activeConnections]
  /\ othersSince' =
       [x \in Subs |-> IF timer[x] = "armed" THEN othersSince[x] + 1 ELSE othersSince[x]]
  /\ UNCHANGED <<now, closed, completed, frames, lastSnapshot, lastWrite, builds>>
  /\ EnvUnchanged

\* GET /events: the request's closure becomes subscriber connects + 1
HandleEvents ==
  LET s == connects + 1 IN
  /\ CanHandle(0)
  /\ connects < MaxSubs
  /\ LET M1 == requestStart(Metrics, "/events", now) IN
     sendData(countConnection(M1), s)
  /\ timer' = [timer EXCEPT ![s] = "armed"]
  /\ due' = [due EXCEPT ![s] = now + Interval]
  /\ connects' = s
  /\ preConnect' = [preConnect EXCEPT ![s] = activeConnections]
  /\ othersSince' =
       [x \in Subs |-> IF timer[x] = "armed" THEN othersSince[x] + 1 ELSE othersSince[x]]
  /\ UNCHANGED <<now, closed, completed>>
  /\ EnvUnchanged

\* GET /api/snapshot that also writes its snapshot to every open stream
HandleApiSnapshotBroadcast(e) ==
  /\ CanHandle(e)
  /\ LET M1 == requestStart(Metrics, "/api/snapshot", now)
         snap == getSnapshot(M1, now)
         M2 == [snap.metrics EXCEPT !.totalBytesSent = @ + byteLength(snap.value),
                                    !.statusCodeCounts = Incr(@, "200")]
     IN  /\ Commit(recordElapsed(M2, e))
         /\ lastSnapshot' = snap.value
  /\ lastWrite' = 0
  /\ builds' = builds + 1
  /\ now' = now + e
  /\ completed' = Append(completed, e)
  /\ frames' = [x \in Subs |-> IF timer[x] = "armed" THEN frames[x] + 1 ELSE frames[x]]
  /\ UNCHANGED <<connects, timer, due, closed, preConnect, othersSince>>
  /\ EnvUnchanged

\* GET /api/snapshot
HandleApiSnapshot(e) ==
  /\ CanHandle(e)
  /\ LET M1 == requestStart(Metrics, "/api/snapshot", now)
         snap == getSnapshot(M1, now)
         M2 == [snap.metrics EXCEPT !.totalBytesSent = @ + byteLength(snap.value),
                                    !.statusCodeCounts = Incr(@, "200")]
     IN  /\ Commit(recordElapsed(M2, e))
         /\ lastSnapshot' = snap.value
  /\ lastWrite' = 0
  /\ builds' = builds + 1
  /\ now' = now + e
  /\ completed' = Append(completed, e)
  /\ SubscribersUnchanged
  /\ EnvUnchanged

\* GET /health: answered like the other routes, but no elapsed time is taken
HandleHealth(e) ==
  /\ CanHandle(e)
  /\ LET M1 == requestStart(Metrics, "/health", now)
         snap == getSnapshot(M1, now)
     IN  /\ Commit([snap.metrics EXCEPT !.totalBytesSent = @ + HealthBytes,
                                        !.statusCodeCounts = Incr(@, "200")])
         /\ lastSnapshot' = snap.value
  /\ lastWrite' = 0
  /\ builds' = builds + 1
  /\ now' = now + e
  /\ completed' = Append(completed, e)
  /\ SubscribersUnchanged
  /\ EnvUnchanged

\* the 404 fallback without its errorCount++
HandleNotFoundUncounted(url, e) ==
  /\ url \notin {"/", "/dashboard", "/events", "/api/snapshot", "/health"}
  /\ CanHandle(e)
  /\ LET M1 == requestStart(Metrics, url, now)
         M2 == [M1 EXCEPT !.statusCodeCounts = Incr(@, "404")]
     IN  Commit(recordElapsed(M2, e))
  /\ now' = now + e
  /\ completed' = Append(completed, e)
  /\ SubscribersUnchanged
  /\ UNCHANGED <<lastSnapshot, lastWrite, builds>>
  /\ EnvUnchanged

\* any other url: the 404 fallback
HandleNotFound(url, e) ==
  /\ url \notin {"/", "/dashboard", "/events", "/api/snapshot", "/health"}
  /\ CanHandle(e)
  /\ LET M1 == requestStart(Metrics, url, now)
         M2 == [M1 EXCEPT !.statusCodeCounts = Incr(@, "404"),
                          !.errorCount = @ + 1]
     IN  Commit(recordElapsed(M2, e))
  /\ now' = now + e
  /\ completed' = Append(completed, e)
  /\ SubscribersUnchanged
  /\ UNCHANGED <<lastSnapshot, lastWrite, builds>>
  /\ EnvUnchanged

(* ----------------------- timers and close events ---------------------- *)

\* a timer that fires once (setTimeout) where the code arms a repeating one
TickOnce(s) ==
  /\ timer[s] = "armed"
  /\ now >= due[s]
  /\ sendData(Metrics, s)
  /\ timer' = [timer EXCEPT ![s] = "unset"]
  /\ UNCHANGED <<now, connects, due, closed, completed, preConnect, othersSince>>
  /\ EnvUnchanged

\* the interval callback of subscriber s, run by the event loop once the timer
\* is due; clearInterval takes the timer out of the loop's list
Tick(s) ==
  /\ timer[s] = "armed"
  /\ now >= due[s]
  /\ sendData(Metrics, s)
  /\ due' = [due EXCEPT ![s] = now + Interval]
  /\ UNCHANGED <<now, connects, timer, closed, completed, preConnect, othersSince>>
  /\ EnvUnchanged

\* the close listener cancelling every armed timer, not its own alone
closeCallbackClearsAll(s) ==
  /\ timer' = [x \in Subs |-> IF timer[x] = "armed" THEN "cleared" ELSE timer[x]]
  /\ activeConnections' = activeConnections - 1

\* the close listener without its clearInterval(timer)
closeCallbackKeepsTimer(s) ==
  /\ timer' = timer
  /\ activeConnections' = activeConnections - 1

\* the close listener without its activeConnections--
closeCallbackNoDecrement(s) ==
  /\ timer' = [timer EXCEPT ![s] = "cleared"]
  /\ activeConnections' = activeConnections

\* the listener req.on("close", ...) of subscriber s
closeCallback(s) ==
  /\ timer' = [timer EXCEPT ![s] = "cleared"]
  /\ activeConnections' = activeConnections - 1

\* req of subscriber s emits "close": Node emits it once per request
Close(s) ==
  /\ s <= connects
  /\ ~closed[s]
  /\ closeCallback(s)
  /\ closed' = [closed EXCEPT ![s] = TRUE]
  /\ othersSince' =
       [x \in Subs |-> IF x # s /\ timer[x] = "armed"
                         THEN othersSince[x] - 1 ELSE othersSince[x]]
  /\ UNCHANGED <<now, requestCount, totalResponseTime, lastRequestTime,
                 minResponseTime, maxResponseTime, errorCount, totalBytesSent,
                 statusCodeCounts, requestsPerEndpoint, lastMinuteRequests,
                 lastHourRequests, connects, due, frames, lastSnapshot,
                 lastWrite, builds, completed, preConnect>>
  /\ UNCHANGED <<lastCpu, totalBytesReceived>>
  /\ EnvUnchanged

\* the listener run once more for a request that has already emitted "close"
CloseAgain(s) ==
  /\ closed[s]
  /\ activeConnections > -MaxSubs   \* the model's bound on repeated events
  /\ closeCallback(s)
  /\ UNCHANGED <<now, requestCount, totalResponseTime, lastRequestTime,
                 minResponseTime, maxResponseTime, errorCount, totalBytesSent,
                 statusCodeCounts, requestsPerEndpoint, lastMinuteRequests,
                 lastHourRequests, connects, due, closed, frames, lastSnapshot,
                 lastWrite, builds, completed, preConnect, othersSince>>
  /\ UNCHANGED <<lastCpu, totalBytesReceived>>
  /\ EnvUnchanged

\* time passes while the event loop is idle
Advance(d) ==
  /\ now + d <= MaxNow
  /\ now' = now + d
  /\ UNCHANGED <<requestCount, totalResponseTime, lastRequestTime,
                 minResponseTime, maxResponseTime, errorCount, activeConnections,
                 totalBytesSent, statusCodeCounts, requestsPerEndpoint,
                 lastMinuteRequests, lastHourRequests, connects, timer, due,
                 closed, frames, lastSnapshot, lastWrite, builds, completed,
                 preConnect, othersSince>>
  /\ UNCHANGED <<lastCpu, totalBytesReceived>>
  /\ EnvUnchanged

(* --------------------------- specifications --------------------------- *)

\* the module-level state right after the script has been loaded
Started ==
  /\ now = 0
  /\ requestCount = 0
  /\ totalResponseTime = 0
  /\ lastRequestTime = Null
  /\ minResponseTime = Infinity
  /\ maxResponseTime = 0
  /\ errorCount = 0
  /\ activeConnections = 0
  /\ totalBytesSent = 0
  /\ statusCodeCounts = <<>>
  /\ requestsPerEndpoint = <<>>
  /\ lastMinuteRequests = <<>>
  /\ lastHourRequests = <<>>
  /\ connects = 0
  /\ timer = [s \in Subs |-> "unset"]
  /\ due = [s \in Subs |-> 0]
  /\ closed = [s \in Subs |-> FALSE]
  /\ frames = [s \in Subs |-> 0]
  /\ lastSnapshot = [timestamp |-> Null]
  /\ lastWrite = 0
  /\ builds = 0
  /\ completed = <<>>
  /\ preConnect = [s \in Subs |-> 0]
  /\ othersSince = [s \in Subs |-> 0]
  /\ broken = [s \in Subs |-> FALSE]
  /\ osCpus = [i \in 1..MaxCores |->
                 [user |-> 0, nice |-> 0, sys |-> 0, idle |-> 0, irq |-> 0]]
  /\ lastCpu = osCpus
  /\ totalBytesReceived = 0
  /\ ended = 0

Init == Started /\ call = [fn |-> "none"] /\ ret = [fn |-> "none"]

Next ==
  \/ \E url \in Urls, e \in ElapsedTimes : HandleDashboard(url, e)
  \/ HandleEvents
  \/ \E e \in ElapsedTimes : HandleApiSnapshot(e)
  \/ \E e \in ElapsedTimes : HandleHealth(e)
  \/ \E url \in Urls, e \in ElapsedTimes : HandleNotFound(url, e)
  \/ \E s \in Subs : Tick(s)
  \/ \E s \in Subs : Close(s)
  \/ \E d \in TimeSteps : Advance(d)

Spec == Init /\ [][Next]_vars

\* the subscribers, their timers and the clock alone: the requests are those
\* for /events (the other routes leave connects, timer, due, closed and frames
\* as they are, and run to completion)
NextStream ==
  \/ HandleEvents
  \/ \E s \in Subs : Tick(s)
  \/ \E s \in Subs : Close(s)
  \/ \E d \in TimeSteps : Advance(d)

\* the event loop runs the callback of a timer that is due, and time does not
\* stop; nothing makes a client close its connection
FairSpec ==
  /\ Init /\ [][NextStream]_vars
  /\ WF_vars(\E d \in TimeSteps : Advance(d))
  /\ \A s \in Subs : WF_vars(Tick(s))

\* the same server with a transport that may deliver "close" again for a
\* request that has already emitted it
NextDoubleClose == Next \/ \E s \in Subs : CloseAgain(s)

SpecDoubleClose == Init /\ [][NextDoubleClose]_vars

\* the socket of subscriber s fails (broken pipe, reset): from now on its
\* writes fail.  res.write's outcome is not looked at and res has no error
\* listener, so the failure itself changes nothing in the server
Break(s) ==
  /\ Streaming(s)
  /\ ~broken[s]
  /\ broken' = [broken EXCEPT ![s] = TRUE]
  /\ UNCHANGED <<now, requestCount, totalResponseTime, lastRequestTime,
                 minResponseTime, maxResponseTime, errorCount, activeConnections,
                 totalBytesSent, statusCodeCounts, requestsPerEndpoint,
                 lastMinuteRequests, lastHourRequests, connects, timer, due,
                 closed, frames, lastSnapshot, lastWrite, builds, completed,
                 preConnect, othersSince, call, ret, lastCpu,
                 totalBytesReceived, osCpus, ended>>

NextBroken ==
  \/ NextStream
  \/ \E s \in Subs : Break(s)

\* Node destroys a socket that has failed and then emits "close" on its
\* request: the close event of a broken subscriber is delivered
BrokenSpec ==
  /\ Init /\ [][NextBroken]_vars
  /\ \A s \in Subs : WF_vars(broken[s] /\ Close(s))

\* the times at which requests are recorded when the windows are watched, and
\* the instants around the end of each window counted from those times
RecordTimes == {0, 1}

WindowInstants ==
  RecordTimes \cup
  {T + w + o : T \in RecordTimes, w \in {MinuteWindow, HourWindow}, o \in {-1, 0, 1}}

\* the event loop stays idle until the instant t
WaitUntil(t) ==
  /\ t \in WindowInstants
  /\ t > now
  /\ now' = t
  /\ UNCHANGED <<requestCount, totalResponseTime, lastRequestTime,
                 minResponseTime, maxResponseTime, errorCount, activeConnections,
                 totalBytesSent, statusCodeCounts, requestsPerEndpoint,
                 lastMinuteRequests, lastHourRequests, connects, timer, due,
                 closed, frames, lastSnapshot, lastWrite, builds, completed,
                 preConnect, othersSince>>
  /\ UNCHANGED <<lastCpu, totalBytesReceived>>
  /\ EnvUnchanged

\* requests recorded early on, subscribers, and long idle periods
WindowNext ==
  \/ HandleDashboard("/", 0)
  \/ HandleEvents
  \/ \E s \in Subs : Tick(s)
  \/ \E t \in WindowInstants : WaitUntil(t)

WindowSpec == Init /\ [][WindowNext]_vars

\* the modes in which the OS is seen to count a tick, and the body sizes of
\* the requests
TickModes == {"user", "idle"}

BodySizes == {0, 5}

\* the OS counts one tick of core i in mode m
OsTick(i, m) ==
  /\ timesTotal(osCpus[i]) + 1 \in TickCounts
  /\ osCpus' = [osCpus EXCEPT ![i][m] = @ + 1]
  /\ UNCHANGED <<serverVars, call, ret>>

\* req of the oldest request still being read emits "end": the n bytes its
\* "data" events have added up in the closure's bytesReceived are added to
\* totalBytesReceived
BodyEnd(n) ==
  /\ ended < requestCount
  /\ ended' = ended + 1
  /\ totalBytesReceived' = totalBytesReceived + n
  /\ UNCHANGED <<now, requestCount, totalResponseTime, lastRequestTime,
                 minResponseTime, maxResponseTime, errorCount, activeConnections,
                 totalBytesSent, statusCodeCounts, requestsPerEndpoint,
                 lastMinuteRequests, lastHourRequests, connects, timer, due,
                 closed, frames, lastSnapshot, lastWrite, builds, completed,
                 preConnect, othersSince, broken, call, ret, lastCpu, osCpus>>

\* the server with its three byte and request counters all moving: requests
\* answered with a snapshot, subscribers, the bodies of the requests ending,
\* pushes, closes and the clock
TrafficNext ==
  \/ HandleEvents
  \/ HandleApiSnapshot(0)
  \/ \E n \in BodySizes : BodyEnd(n)
  \/ \E s \in Subs : Tick(s)
  \/ \E s \in Subs : Close(s)
  \/ \E d \in TimeSteps : Advance(d)

TrafficSpec == Init /\ [][TrafficNext]_vars

\* the server on a host whose tick counters move, with callers of getSnapshot
\* of both kinds: subscribers (connects and ticks) and a request that is
\* answered with a snapshot (/health; /api/snapshot calls it the same way)
SamplerNext ==
  \/ HandleEvents
  \/ HandleHealth(0)
  \/ \E s \in Subs : Tick(s)
  \/ \E i \in 1..MaxCores, m \in TickModes : OsTick(i, m)
  \/ \E d \in TimeSteps : Advance(d)

SamplerSpec == Init /\ [][SamplerNext]_vars

\* connects with request bodies, a moving host and long idle periods
HostNext ==
  \/ HandleEvents
  \/ \E i \in 1..MaxCores, m \in TickModes : OsTick(i, m)
  \/ \E n \in BodySizes : BodyEnd(n)
  \/ \E t \in WindowInstants : WaitUntil(t)

HostSpec == Init /\ [][HostNext]_vars

\* requests that are answered with a page or with the 404 fallback, taking
\* 10, 20 or 30 ms each
ScenarioElapsed == {10, 20, 30}

ScenarioNext ==
  \/ \E e \in ScenarioElapsed : HandleDashboard("/", e)
  \/ \E e \in ScenarioElapsed : HandleNotFound("/nope", e)

ScenarioSpec == Init /\ [][ScenarioNext]_vars

(* -------------------- functions applied on their own ------------------ *)

\* getSnapshot over counters that stand at call.requestCount requests, of
\* which call.errorCount were answered with an error status
ApplyGetSnapshot ==
  /\ call.fn = "getSnapshot" /\ ret.fn = "none"
  /\ ret' = [fn |-> "getSnapshot",
             value |-> getSnapshot([Metrics EXCEPT
                                     !.requestCount = call.requestCount,
                                     !.errorCount = call.errorCount], now).value]
  /\ UNCHANGED <<serverVars, call, osCpus>>

GetSnapshotCalls ==
  {[fn |-> "getSnapshot", requestCount |-> n, errorCount |-> k] :
     n \in 0..MaxCount, k \in 0..MaxCount}

\* percentages at, just above and away from the thresholds
HealthInputs == {0, 70, 71, 80, 81, 90, 91, 95, 96, 100}

HealthCalls ==
  {[fn |-> "getHealthStatus", cpu |-> c, memPct |-> m, diskPct |-> d] :
     c \in HealthInputs, m \in HealthInputs, d \in HealthInputs}

ApplyGetHealthStatus ==
  /\ call.fn = "getHealthStatus" /\ ret.fn = "none"
  /\ ret' = [fn |-> "getHealthStatus"]
             @@ getHealthStatus(call.cpu, call.memPct, call.diskPct)
  /\ UNCHANGED <<serverVars, call, osCpus>>

\* what the df command and os.networkInterfaces() may come back with
DfOutcomes ==
  {[kind |-> "throws"], [kind |-> "fallback"],
   [kind |-> "table", total |-> 100, used |-> 42, percent |-> 42]}

InterfacesOutcomes ==
  {[kind |-> "throws"],
   [kind |-> "list", addrs |-> <<>>],
   [kind |-> "list", addrs |-> <<[interface |-> "lo", internal |-> TRUE],
                                 [interface |-> "eth0", internal |-> FALSE]>>]}

HostCalls ==
  {[fn |-> "getSnapshotOnHost", df |-> d, interfaces |-> i] :
     d \in DfOutcomes, i \in InterfacesOutcomes}

\* getSnapshot on a host whose queries may fail
ApplyGetSnapshotOnHost ==
  /\ call.fn = "getSnapshotOnHost" /\ ret.fn = "none"
  /\ ret' = [fn |-> "getSnapshotOnHost"]
             @@ getSnapshotOnHost(Metrics, now, call.df, call.interfaces)
  /\ UNCHANGED <<serverVars, call, osCpus>>

Calls ==
  {c \in GetSnapshotCalls : c.errorCount <= c.requestCount}
    \cup HealthCalls \cup HostCalls

FunctionInit == Started /\ call \in Calls /\ ret = [fn |-> "none"]

FunctionNext ==
  \/ ApplyGetSnapshot
  \/ ApplyGetHealthStatus
  \/ ApplyGetSnapshotOnHost

FunctionSpec == FunctionInit /\ [][FunctionNext]_vars

\* the tick counters one core may show
CoreTimes ==
  {t \in [user : TickCounts, nice : TickCounts, sys : TickCounts,
          idle : TickCounts, irq : TickCounts] : timesTotal(t) \in TickCounts}

\* an earlier and a later reading of one core: the counters only grow
CorePairs ==
  {p \in CoreTimes \X CoreTimes :
     /\ p[1].user <= p[2].user /\ p[1].nice <= p[2].nice
     /\ p[1].sys <= p[2].sys /\ p[1].idle <= p[2].idle
     /\ p[1].irq <= p[2].irq}

\* a stored reading of m cores and a current one of n >= m cores
CpuCalls ==
  UNION {{[fn |-> "cpuUsage",
           lastCpu |-> [i \in 1..m |-> q[i][1]],
           cpus |-> [i \in 1..n |-> q[i][2]]] : q \in [1..n -> CorePairs]} :
         <<m, n>> \in {x \in (1..MaxCores) \X (1..MaxCores) : x[1] <= x[2]}}

\* the first cpuUsage call
ApplyCpuUsage ==
  /\ call.fn = "cpuUsage" /\ ret.fn = "none"
  /\ ret' = [fn |-> "cpuUsage", calls |-> 1] @@ cpuUsage(call.lastCpu, call.cpus)
  /\ UNCHANGED <<serverVars, call, osCpus>>

\* a second cpuUsage call while the counters of the OS stand still
ApplyCpuUsageAgain ==
  /\ ret.fn = "cpuUsage" /\ ret.calls = 1
  /\ ret' = [fn |-> "cpuUsage", calls |-> 2] @@ cpuUsage(ret.lastCpu, call.cpus)
  /\ UNCHANGED <<serverVars, call, osCpus>>

CpuInit == Started /\ call \in CpuCalls /\ ret = [fn |-> "none"]

CpuNext == ApplyCpuUsage \/ ApplyCpuUsageAgain

CpuSpec == CpuInit /\ [][CpuNext]_vars

\* the tick counters of a core that counted in user or idle mode only
UserIdleTimes == {t \in CoreTimes : t.nice = 0 /\ t.sys = 0 /\ t.irq = 0}

\* a stored reading of m cores and a current one of n >= m cores, with no
\* relation between the two: lastCpu[i] is whatever os.cpus() listed at index
\* i the last time, so a counter may stand lower in the current reading
CpuAnyCalls ==
  UNION {{[fn |-> "cpuUsage",
           lastCpu |-> [i \in 1..m |-> q[i][1]],
           cpus |-> [i \in 1..n |-> q[i][2]]] :
            q \in [1..n -> UserIdleTimes \X UserIdleTimes]} :
         <<m, n>> \in {x \in (1..MaxCores) \X (1..MaxCores) : x[1] <= x[2]}}

CpuAnyInit == Started /\ call \in CpuAnyCalls /\ ret = [fn |-> "none"]

CpuAnySpec == CpuAnyInit /\ [][CpuNext]_vars

\* process uptimes at which a snapshot is built, in ms: process.uptime() is
\* positive whenever getSnapshot runs
Uptimes ==
  {1, 500, 1000, 2000, 15000, 30000, 45000, 59999, 60000, 60001, 90000,
   120000, 180000, 600000, 3600000}

\* the avgLifetimeRpm field of a snapshot built after count requests
UptimeCalls ==
  {[fn |-> "avgLifetimeRpm", requestCount |-> n, uptime |-> u] :
     n \in 0..MaxRequests, u \in Uptimes}

ApplyAvgLifetimeRpm ==
  /\ call.fn = "avgLifetimeRpm" /\ ret.fn = "none"
  /\ ret' = [fn |-> "avgLifetimeRpm",
             value |-> avgLifetimeRpm(call.requestCount, call.uptime)]
  /\ UNCHANGED <<serverVars, call, osCpus>>

UptimeInit == Started /\ call \in UptimeCalls /\ ret = [fn |-> "none"]

UptimeSpec == UptimeInit /\ [][ApplyAvgLifetimeRpm]_vars

(* ------------------------------ server.js ----------------------------- *)

\* server.js keeps lastCpu, requestCount, totalResponseTime and
\* lastRequestTime; the other metrics of the model are not part of it
otherMetrics ==
  <<minResponseTime, maxResponseTime, errorCount, activeConnections,
    totalBytesSent, statusCodeCounts, requestsPerEndpoint, lastMinuteRequests,
    lastHourRequests, completed, preConnect, othersSince, broken,
    totalBytesReceived, ended, call, ret>>

\* the number NaN
NaN == -888888888

\* cpuUsage of server.js, with stored the value of lastCpu and cpus the
\* reading os.cpus() returns now, both of the same cores: idle / total is NaN
\* for 0 / 0 and an infinity for any other division by 0, and Math.round
\* keeps either
serverCpuUsage(stored, cpus) ==
  LET idle == SeqSum([i \in 1..Len(cpus) |-> cpus[i].idle - stored[i].idle])
      total == SeqSum([i \in 1..Len(cpus) |->
                         timesTotal(cpus[i]) - timesTotal(stored[i])])
  IN  [value |-> IF total # 0 THEN MathRound(100 * (total - idle), total)
                 ELSE IF idle = 0 THEN NaN
                 ELSE IF idle > 0 THEN -Infinity ELSE Infinity,
       lastCpu |-> cpus]

\* a number as it arrives in a pushed frame: JSON.stringify writes null for
\* NaN and the infinities
jsonNumber(x) == IF x \in {NaN, Infinity, -Infinity} THEN Null ELSE x

\* getSnapshot of server.js at time t (its timestamp, cpu, requests,
\* avgResponseMs and lastRequest fields)
serverGetSnapshot(t) ==
  [timestamp |-> t,
   cpu |-> serverCpuUsage(lastCpu, osCpus).value,
   requests |-> requestCount,
   avgResponseMs |-> IF requestCount # 0
                       THEN MathRound(totalResponseTime, requestCount) ELSE 0,
   lastRequest |-> lastRequestTime]

\* a snapshot as a subscriber reads it from the frame
pushedSnapshot(snapshot) == [snapshot EXCEPT !.cpu = jsonNumber(@)]

\* GET / of server.js: the page, no response time recorded
ServerPage ==
  /\ CanHandle(0)
  /\ requestCount' = requestCount + 1
  /\ lastRequestTime' = now
  /\ UNCHANGED <<now, totalResponseTime, connects, timer, due, closed, frames,
                 lastSnapshot, lastWrite, builds, lastCpu, osCpus>>
  /\ UNCHANGED otherMetrics

\* GET /events of server.js: the head is written and the interval armed; the
\* first frame is written by the first tick
ServerEvents ==
  LET s == connects + 1 IN
  /\ CanHandle(0)
  /\ connects < MaxSubs
  /\ requestCount' = requestCount + 1
  /\ lastRequestTime' = now
  /\ timer' = [timer EXCEPT ![s] = "armed"]
  /\ due' = [due EXCEPT ![s] = now + Interval]
  /\ connects' = s
  /\ UNCHANGED <<now, totalResponseTime, closed, frames, lastSnapshot,
                 lastWrite, builds, lastCpu, osCpus>>
  /\ UNCHANGED otherMetrics

\* any other url of server.js: 404, answered after e ms
ServerNotFound(e) ==
  /\ CanHandle(e)
  /\ requestCount' = requestCount + 1
  /\ lastRequestTime' = now
  /\ totalResponseTime' = totalResponseTime + e
  /\ now' = now + e
  /\ UNCHANGED <<connects, timer, due, closed, frames, lastSnapshot, lastWrite,
                 builds, lastCpu, osCpus>>
  /\ UNCHANGED otherMetrics

\* the interval callback of subscriber s in server.js: one getSnapshot, one
\* res.write of its JSON text
ServerTick(s) ==
  /\ timer[s] = "armed"
  /\ now >= due[s]
  /\ lastSnapshot' = pushedSnapshot(serverGetSnapshot(now))
  /\ lastCpu' = serverCpuUsage(lastCpu, osCpus).lastCpu
  /\ lastWrite' = s
  /\ frames' = [frames EXCEPT ![s] = @ + 1]
  /\ builds' = builds + 1
  /\ due' = [due EXCEPT ![s] = now + Interval]
  /\ UNCHANGED <<now, requestCount, totalResponseTime, lastRequestTime,
                 connects, timer, closed, osCpus>>
  /\ UNCHANGED otherMetrics

\* req of subscriber s emits "close" in server.js: clearInterval(timer)
ServerClose(s) ==
  /\ s <= connects
  /\ ~closed[s]
  /\ timer' = [timer EXCEPT ![s] = "cleared"]
  /\ closed' = [closed EXCEPT ![s] = TRUE]
  /\ UNCHANGED <<now, requestCount, totalResponseTime, lastRequestTime,
                 connects, due, frames, lastSnapshot, lastWrite, builds,
                 lastCpu, osCpus>>
  /\ UNCHANGED otherMetrics

ServerNext ==
  \/ ServerPage
  \/ ServerEvents
  \/ \E e \in ElapsedTimes : ServerNotFound(e)
  \/ \E s \in Subs : ServerTick(s)
  \/ \E s \in Subs : ServerClose(s)
  \/ \E i \in 1..MaxCores, m \in TickModes : OsTick(i, m)
  \/ \E d \in TimeSteps : Advance(d)

ServerSpec == Init /\ [][ServerNext]_vars

(* ------------------------------- claims ------------------------------- *)

\* this step is the handling of subscriber s's close event
CloseStep(s) == ~closed[s] /\ closed'[s]

\* this step is a tick of subscriber s's timer: the timer is rescheduled
TickStep(s) == connects' = connects /\ due'[s] # due[s]

RECURSIVE SeqMin(_)
SeqMin(q) == IF Len(q) = 1 THEN Head(q) ELSE MathMin(Head(q), SeqMin(Tail(q)))

RECURSIVE SeqMax(_)
SeqMax(q) == IF Len(q) = 1 THEN Head(q) ELSE MathMax(Head(q), SeqMax(Tail(q)))

\* C1: once the close event of a subscriber has been handled, no step of the
\* system (tick, request handler, connect or close of another subscriber)
\* writes another frame to that subscriber's stream.
C1_NoPushAfterClose ==
  [][\A s \in Subs : closed[s] => frames'[s] = frames[s]]_vars

\* a closed subscriber whose timer would have been due, while another
\* subscriber has just been served by its own timer
C1_Witness ==
  \E s, t \in Subs :
    /\ s # t /\ closed[s] /\ now >= due[s]
    /\ ~closed[t] /\ frames[t] >= 2 /\ lastWrite = t

\* C2: activeConnections never goes below zero.
C2_NonNegative == activeConnections >= 0

\* two subscribers have connected, both have closed, the counter is back at 0
C2_Witness ==
  connects >= 2 /\ (\A s \in 1..connects : closed[s]) /\ activeConnections = 0

\* C3 as stated: when a subscriber's close is handled before its first tick
\* (only the immediate frame has been written to it), nothing is written to it
\* afterwards and activeConnections is back at its value just before the connect.
C3_RestoresPreConnect ==
  [][\A s \in Subs :
       /\ (CloseStep(s) /\ frames[s] = 1) => activeConnections' = preConnect[s]
       /\ (closed[s] /\ frames[s] = 1) => frames'[s] = 1]_vars

\* C3 amended: activeConnections is back at its value just before the connect,
\* shifted by the connects and closes of other subscribers handled in between.
C3_RestoresUpToOthers ==
  [][\A s \in Subs :
       /\ (CloseStep(s) /\ frames[s] = 1) =>
            activeConnections' = preConnect[s] + othersSince[s]
       /\ (closed[s] /\ frames[s] = 1) => frames'[s] = 1]_vars

\* a subscriber closed before its first tick, its timer's due time has passed,
\* and another subscriber connected or closed between its connect and its close
C3_Witness ==
  \E s \in Subs :
    closed[s] /\ frames[s] = 1 /\ now >= due[s] /\ othersSince[s] # 0

\* C4: a close event for a subscriber that is already closed changes neither
\* activeConnections nor any timer.
C4_CloseIdempotent ==
  [][\A s \in Subs :
       (closed[s] /\ closeCallback(s)) =>
         (activeConnections' = activeConnections /\ timer' = timer)]_vars

\* C5: the connect handler, in one step, counts the connection, then pushes
\* exactly one snapshot (which already shows the new count) to the new
\* subscriber only, then arms its timer one interval ahead; so a subscriber
\* that has a timer has received a frame.
C5_ConnectOrder ==
  /\ [](\A s \in Subs : timer[s] # "unset" => frames[s] >= 1)
  /\ [][connects' # connects =>
          LET s == connects' IN
          /\ activeConnections' = activeConnections + 1
          /\ frames[s] = 0 /\ frames'[s] = 1
          /\ \A t \in Subs \ {s} : frames'[t] = frames[t]
          /\ builds' = builds + 1
          /\ lastWrite' = s
          /\ lastSnapshot'.activeConnections = activeConnections + 1
          /\ timer[s] = "unset" /\ timer'[s] = "armed"
          /\ due'[s] = now' + Interval]_vars

\* the second subscriber has just connected: one frame, showing two connections
C5_Witness ==
  \E s \in Subs :
    /\ timer[s] = "armed" /\ frames[s] = 1 /\ lastWrite = s
    /\ lastSnapshot.activeConnections = 2 /\ now < due[s]

\* C6: a tick of subscriber s builds one snapshot and writes one frame, which
\* carries that snapshot, to the stream of s and to no other stream.
C6_TickWritesOneFrame ==
  [][\A s \in Subs :
       TickStep(s) =>
         /\ builds' = builds + 1
         /\ frames'[s] = frames[s] + 1
         /\ \A t \in Subs \ {s} : frames'[t] = frames[t]
         /\ lastWrite' = s
         /\ lastSnapshot' = getSnapshot(Metrics, now).value]_vars

\* a tick has just served one subscriber while another one, also streaming,
\* still has only its first frame
C6_Witness ==
  \E s, t \in Subs :
    /\ s # t /\ frames[s] >= 2 /\ lastWrite = s
    /\ timer[t] = "armed" /\ frames[t] = 1

C8_AvgIsMeanOfCompleted ==
  completed # <<>> =>
    getSnapshot(Metrics, now).value.avgResponseMs
      = MathRound(SeqSum(completed), Len(completed))

\* C9: a snapshot's minResponseMs and maxResponseMs are the least and the
\* greatest elapsed time of the requests answered so far, and 0 when there is none.
C9_MinMaxOfCompleted ==
  LET v == getSnapshot(Metrics, now).value IN
  IF completed = <<>>
    THEN v.minResponseMs = 0 /\ v.maxResponseMs = 0
    ELSE v.minResponseMs = SeqMin(completed) /\ v.maxResponseMs = SeqMax(completed)

\* C10 as stated: once a request has been counted, the stored minimum is at
\* most the stored maximum.
C10_MinLeMaxOnceCounted == requestCount > 0 => minResponseTime <= maxResponseTime

\* C10 amended: once a response time has been recorded (the minimum is no
\* longer the +Infinity it starts with), the stored minimum is at most the
\* stored maximum.
C10_MinLeMaxOnceRecorded ==
  minResponseTime # Infinity => minResponseTime <= maxResponseTime

\* two different response times have been recorded
C10_Witness == minResponseTime # Infinity /\ minResponseTime < maxResponseTime

\* C11: in a snapshot built when totalRequests > 0, successRate + errorRate is
\* 100 up to the rounding of each term to one decimal: the sum, in tenths of a
\* percent, is within 1 of 1000.
C11_RatesSumTo100 ==
  (ret.fn = "getSnapshot" /\ ret.value.totalRequests > 0) =>
    LET sum == ret.value.successRate + ret.value.errorRate IN
    sum >= 999 /\ sum <= 1001

\* 1 error in 16 requests: 6.25 and 93.75 both round up, the sum is 100.1
C11_Witness ==
  /\ ret.fn = "getSnapshot" /\ ret.value.totalRequests = 16
  /\ ret.value.errorRate = 63 /\ ret.value.successRate = 938

\* C12: a snapshot built while totalRequests = 0 reports successRate = 100 and
\* errorRate = 0.
C12_RatesWithoutRequests ==
  (ret.fn = "getSnapshot" /\ ret.value.totalRequests = 0) =>
    (ret.value.successRate = 1000 /\ ret.value.errorRate = 0)

AllAtLastRequest(q) ==
  Len(q) = requestCount /\ \A i \in 1..Len(q) : q[i] = lastRequestTime

\* C14: if K requests are recorded at time T and no others, a snapshot built at
\* T + window - 1 reports the count K and a snapshot built at T + window + 1
\* reports 0, for the window of 60000 ms (rpm) and that of 3600000 ms (rph).
C14_WindowEdges ==
  LET v == getSnapshot(Metrics, now).value
      T == lastRequestTime
  IN  requestCount >= 1 =>
        /\ (AllAtLastRequest(lastMinuteRequests) /\ now = T + MinuteWindow - 1)
              => v.rpm = requestCount
        /\ (AllAtLastRequest(lastMinuteRequests) /\ now = T + MinuteWindow + 1)
              => v.rpm = 0
        /\ (AllAtLastRequest(lastHourRequests) /\ now = T + HourWindow - 1)
              => v.rph = requestCount
        /\ (AllAtLastRequest(lastHourRequests) /\ now = T + HourWindow + 1)
              => v.rph = 0

\* three requests at time 1, one of them a subscriber whose tick at 3600000
\* pushed rph = 3 (and rpm = 0); at 3600002 a snapshot says rph = 0
C14_Witness ==
  /\ requestCount = 3 /\ lastRequestTime = 1
  /\ AllAtLastRequest(lastHourRequests)
  /\ lastSnapshot.timestamp = HourWindow /\ lastSnapshot.rph = 3
  /\ lastSnapshot.rpm = 0
  /\ now = HourWindow + 2
  /\ getSnapshot(Metrics, now).value.rph = 0

\* C15: cpuUsage returns 0 whenever the tick difference summed over all cores
\* is 0, and a second call with no tick of the OS in between returns 0.
C15_ZeroWithoutTicks ==
  ret.fn = "cpuUsage" =>
    /\ ( /\ ret.calls = 1
         /\ SeqSum([i \in 1..Len(call.cpus) |->
                      timesTotal(call.cpus[i])
                        - timesTotal(IF i <= Len(call.lastCpu)
                                       THEN call.lastCpu[i] ELSE call.cpus[i])]) = 0 )
          => ret.value = 0
    /\ ret.calls = 2 => ret.value = 0

\* a first call that saw one busy tick (100 %), then a second call that
\* returned 0
C15_Witness ==
  /\ ret.fn = "cpuUsage" /\ ret.calls = 2 /\ ret.value = 0
  /\ cpuUsage(call.lastCpu, call.cpus).value = 100

\* C16: getHealthStatus returns CRITICAL exactly when cpu > 90 or mem > 90 or
\* disk > 95, otherwise WARNING exactly when cpu > 70 or mem > 70 or disk > 80,
\* otherwise HEALTHY; 90/90/95 is not CRITICAL, 70/70/80 is HEALTHY, and each
\* tier has one color.
C16_HealthTiers ==
  ret.fn = "getHealthStatus" =>
    LET critical == call.cpu > 90 \/ call.memPct > 90 \/ call.diskPct > 95
        warning == call.cpu > 70 \/ call.memPct > 70 \/ call.diskPct > 80
    IN  /\ ret.status = "CRITICAL" <=> critical
        /\ ret.status = "WARNING" <=> (~critical /\ warning)
        /\ ret.status = "HEALTHY" <=> (~critical /\ ~warning)
        /\ (call.cpu = 90 /\ call.memPct = 90 /\ call.diskPct = 95)
             => ret.status # "CRITICAL"
        /\ (call.cpu = 70 /\ call.memPct = 70 /\ call.diskPct = 80)
             => ret.status = "HEALTHY"
        /\ ret.status = "CRITICAL" => ret.color = "#ef4444"
        /\ ret.status = "WARNING" => ret.color = "#f59e0b"
        /\ ret.status = "HEALTHY" => ret.color = "#22c55e"

\* every value on its upper threshold: a WARNING in amber
C16_Witness ==
  /\ ret.fn = "getHealthStatus"
  /\ call.cpu = 90 /\ call.memPct = 90 /\ call.diskPct = 95
  /\ ret.status = "WARNING" /\ ret.color = "#f59e0b"

\* C17: getSnapshot always returns a snapshot: when the disk-usage query or the
\* network-interfaces query fails, no exception leaves getSnapshot and the
\* field is a zeroed or empty placeholder.
C17_HostFailuresDegrade ==
  ret.fn = "getSnapshotOnHost" =>
    /\ ~ret.threw
    /\ call.df.kind # "table" =>
         ret.value.disk = [total |-> 0, used |-> 0, free |-> 0, percent |-> 0]
    /\ call.interfaces.kind = "throws" => ret.value.network = <<>>

\* C18: a subscriber whose socket has failed is handled like one that
\* disconnects cleanly: its close event follows, and the handling of a close
\* event cancels the subscriber's timer and takes 1 off activeConnections, so
\* its timer does not keep firing.
C18_BrokenIsClosed ==
  /\ \A s \in Subs : broken[s] ~> (closed[s] /\ timer[s] = "cleared")
  /\ [][\A s \in Subs :
          CloseStep(s) => /\ timer'[s] = "cleared"
                          /\ activeConnections' = activeConnections - 1]_vars

\* a subscriber that broke after its first tick has been closed, its timer is
\* cancelled although it would be due, and the other subscriber is still served
C18_Witness ==
  \E s, t \in Subs :
    /\ s # t /\ broken[s] /\ closed[s] /\ timer[s] = "cleared"
    /\ frames[s] >= 2 /\ now >= due[s]
    /\ timer[t] = "armed" /\ ~broken[t] /\ lastWrite = t /\ activeConnections = 1

\* C19: the start of every request, whatever its url, adds exactly 1 to
\* requestCount and to requestsPerEndpoint[url], appends the current time to
\* the per-minute and the per-hour list, and sets lastRequestTime to it.  (A
\* request step is one that answers a request or connects a subscriber.)
C19_RequestStart ==
  [][(completed' # completed \/ connects' # connects) =>
       /\ requestCount' = requestCount + 1
       /\ \E url \in Urls :
            /\ requestsPerEndpoint' = Incr(requestsPerEndpoint, url)
            /\ requestsPerEndpoint'[url]
                 = (IF url \in DOMAIN requestsPerEndpoint
                      THEN requestsPerEndpoint[url] ELSE 0) + 1
       /\ lastMinuteRequests' = Append(lastMinuteRequests, now)
       /\ lastHourRequests' = Append(lastHourRequests, now)
       /\ lastRequestTime' = now]_vars

\* a 404 at time 0, then a subscriber and a second 404 for the same url at 2000
C19_Witness ==
  /\ requestCount = 3
  /\ requestsPerEndpoint = ("/nope" :> 2 @@ "/events" :> 1)
  /\ lastMinuteRequests = <<0, 2000, 2000>>
  /\ lastHourRequests = <<0, 2000, 2000>>
  /\ lastRequestTime = 2000

\* the status codes as numbers
StatusNumber(code) == IF code = "404" THEN 404 ELSE 200

\* the sum of counts[c] over the codes c of the set codes
RECURSIVE CountSum(_, _)
CountSum(counts, codes) ==
  IF codes = {} THEN 0
  ELSE LET c == CHOOSE x \in codes : TRUE
       IN  counts[c] + CountSum(counts, codes \ {c})

\* C20: every request answered with a status code adds exactly 1 to
\* statusCodeCounts[code], and 1 to errorCount exactly when the code is >= 400;
\* hence between handlers errorCount is the sum of statusCodeCounts over the
\* codes >= 400.
C20_StatusCounts ==
  /\ [](errorCount =
          CountSum(statusCodeCounts,
                   {c \in DOMAIN statusCodeCounts : StatusNumber(c) >= 400}))
  /\ [][completed' # completed =>
          \E code \in {"200", "404"} :
            /\ statusCodeCounts' = Incr(statusCodeCounts, code)
            /\ errorCount' =
                 errorCount + (IF StatusNumber(code) >= 400 THEN 1 ELSE 0)]_vars

\* one page and two 404 answers
C20_Witness ==
  errorCount = 2 /\ statusCodeCounts = ("200" :> 1 @@ "404" :> 2)

\* C21: every request that is answered (/, /dashboard, /api/snapshot, /health
\* and the 404 fallback) adds its elapsed time to totalResponseTime and updates
\* minResponseTime and maxResponseTime with it.
C21_AnswerRecordsElapsed ==
  [][completed' # completed =>
       LET elapsed == completed'[Len(completed')] IN
       /\ totalResponseTime' = totalResponseTime + elapsed
       /\ minResponseTime' = MathMin(minResponseTime, elapsed)
       /\ maxResponseTime' = MathMax(maxResponseTime, elapsed)]_vars

\* C22: every request that is answered adds the byte length of its response
\* body to totalBytesSent, whatever its status code, the 404 fallback included.
C22_AnswerCountsBytes ==
  [][completed' # completed =>
       \E url \in Urls :
         /\ requestsPerEndpoint' = Incr(requestsPerEndpoint, url)
         /\ totalBytesSent' = totalBytesSent + BodyBytes(url, lastSnapshot')]_vars

\* C23: getSnapshot changes none of requestCount, totalResponseTime,
\* minResponseTime, maxResponseTime, errorCount, statusCodeCounts,
\* requestsPerEndpoint, totalBytesReceived, totalBytesSent, activeConnections
\* and lastRequestTime; of the module-level state it changes only lastCpu and
\* the two window lists.
C23_SnapshotFrame ==
  LET after == getSnapshot(Metrics, now).metrics
      kept == {"requestCount", "totalResponseTime", "minResponseTime",
               "maxResponseTime", "errorCount", "statusCodeCounts",
               "requestsPerEndpoint", "totalBytesReceived", "totalBytesSent",
               "activeConnections", "lastRequestTime"}
  IN  /\ \A f \in kept : after[f] = Metrics[f]
      /\ DOMAIN after = DOMAIN Metrics
      /\ DOMAIN Metrics =
           kept \cup {"lastCpu", "lastMinuteRequests", "lastHourRequests"}

\* a state in which getSnapshot does change lastCpu and both lists, while
\* bytes have been received and a subscriber is connected
C23_Witness ==
  LET after == getSnapshot(Metrics, now).metrics IN
  /\ totalBytesReceived > 0 /\ activeConnections > 0 /\ totalBytesSent > 0
  /\ after.lastCpu # lastCpu
  /\ lastMinuteRequests # <<>> /\ after.lastMinuteRequests = <<>>
  /\ Len(after.lastHourRequests) < Len(lastHourRequests)

\* C24: a snapshot returned by getSnapshot is never changed by a later
\* operation: as long as no new snapshot is built, the latest one reads the
\* same in all its fields, statusCodes and endpoints included.
C24_SnapshotImmutable ==
  [][builds' = builds =>
       readSnapshot(lastSnapshot', statusCodeCounts', requestsPerEndpoint')
         = readSnapshot(lastSnapshot, statusCodeCounts, requestsPerEndpoint)]_vars

\* C25: in every reachable state activeConnections is the number of /events
\* subscribers whose timer is armed (connected and not yet closed).
C25_CountsArmedTimers ==
  /\ activeConnections = Cardinality({s \in Subs : timer[s] = "armed"})
  /\ \A s \in Subs : timer[s] = "armed" <=> Streaming(s)

\* two subscribers have connected and the first one has closed
C25_Witness ==
  /\ connects = 2 /\ closed[1] /\ ~closed[2]
  /\ timer[1] = "cleared" /\ timer[2] = "armed" /\ activeConnections = 1

\* C26: all snapshot builds share one lastCpu: whoever builds a snapshot (a
\* subscriber's connect or tick, /api/snapshot, /health), its cpu value is
\* computed against the reading stored by the latest build before it and its
\* reading is stored in turn; so when a tick of one subscriber follows a push
\* to another one with no tick of the OS in between, its snapshot says cpu = 0.
C26_SharedLastCpu ==
  /\ [][builds' # builds =>
          /\ lastSnapshot'.cpu = cpuUsage(lastCpu, osCpus).value
          /\ lastCpu' = osCpus]_vars
  /\ [][\A s \in Subs :
          (TickStep(s) /\ lastWrite \in Subs \ {s} /\ lastCpu = osCpus)
            => lastSnapshot'.cpu = 0]_vars

\* the OS has counted a busy tick, both subscribers' timers have fired at the
\* same time, and the one served second was told cpu = 0
C26_Witness ==
  \E s, t \in Subs :
    /\ s # t /\ frames[s] >= 2 /\ frames[t] >= 2 /\ due[s] = due[t]
    /\ lastWrite = s /\ lastSnapshot.cpu = 0
    /\ \E i \in 1..MaxCores : osCpus[i].user > 0

\* C27: handling the close event of one subscriber leaves every other
\* subscriber's timer as it is (armed stays armed, due at the same time) and
\* changes no metric other than activeConnections, which drops by exactly 1.
C27_CloseFrame ==
  [][\A s \in Subs :
       CloseStep(s) =>
         /\ \A t \in Subs \ {s} : timer'[t] = timer[t] /\ due'[t] = due[t]
         /\ activeConnections' = activeConnections - 1
         /\ [Metrics EXCEPT !.activeConnections = 0]'
              = [Metrics EXCEPT !.activeConnections = 0]]_vars

\* one subscriber closed after its first tick; the other one has been served
\* by its timer twice, the second time after that close could have happened
C27_Witness ==
  \E s, t \in Subs :
    /\ s # t /\ closed[s] /\ frames[s] = 2
    /\ timer[t] = "armed" /\ frames[t] = 3 /\ lastWrite = t
    /\ activeConnections = 1 /\ requestCount = 3

\* C28: handling a request to any route other than /events writes nothing to
\* any subscriber's stream and arms or cancels no timer; a frame is written
\* only by a connect or by a tick of the subscriber's own timer.
C28_RequestsDoNotPush ==
  /\ [][completed' # completed =>
          (frames' = frames /\ timer' = timer /\ due' = due)]_vars
  /\ [][\A s \in Subs :
          frames'[s] # frames[s] => (connects' = s /\ connects = s - 1) \/ TickStep(s)]_vars

\* a subscriber with its first frame only, while /api/snapshot and /health
\* have both been answered with snapshots built after its connect
C28_Witness ==
  \E s \in Subs :
    /\ timer[s] = "armed" /\ frames[s] = 1 /\ lastWrite = 0 /\ builds = 3
    /\ DOMAIN requestsPerEndpoint = {"/events", "/api/snapshot", "/health"}
    /\ lastSnapshot.activeConnections = 1 /\ lastSnapshot.totalRequests = 3

\* the list q is non-decreasing in insertion order
NonDecreasing(q) == \A i, j \in 1..Len(q) : i <= j => q[i] <= q[j]

\* C29: right after any getSnapshot at time t, every timestamp kept in
\* lastMinuteRequests is less than 60000 ms old at t and every timestamp kept
\* in lastHourRequests less than 3600000 ms; and in every reachable state each
\* list is non-decreasing in insertion order.
C29_WindowsPruned ==
  /\ [][builds' # builds =>
          /\ \A i \in 1..Len(lastMinuteRequests') :
               lastSnapshot'.timestamp - lastMinuteRequests'[i] < MinuteWindow
          /\ \A i \in 1..Len(lastHourRequests') :
               lastSnapshot'.timestamp - lastHourRequests'[i] < HourWindow]_vars
  /\ [](NonDecreasing(lastMinuteRequests) /\ NonDecreasing(lastHourRequests))

\* a tick at 3600000 has dropped the request recorded at 0 from the hour list
\* and kept the two recorded at 1; the minute list is empty
C29_Witness ==
  /\ lastSnapshot.timestamp = HourWindow /\ lastWrite # 0
  /\ requestCount = 3
  /\ lastHourRequests = <<1, 1>>
  /\ lastMinuteRequests = <<>>

\* C30: the first cpuUsage call after process start returns 0: the first
\* snapshot ever built reports cpu = 0.
C30_FirstCpuIsZero == builds = 1 => lastSnapshot.cpu = 0

\* C31: cpuUsage always returns an integer in [0,100], for any previous and
\* current per-core tick readings.
C31_Percentage == ret.fn = "cpuUsage" => ret.value \in 0..100

\* C32: avgLifetimeRpm equals totalRequests / max(uptimeSeconds / 60, 1): for
\* every process uptime below 60 s it equals totalRequests and it is never
\* larger than totalRequests.
C32_LifetimeRpm ==
  ret.fn = "avgLifetimeRpm" =>
    /\ ret.value = MathRound(100 * call.requestCount * UptimeMinute,
                             MathMax(call.uptime, UptimeMinute))
    /\ call.uptime < UptimeMinute => ret.value = 100 * call.requestCount
    /\ ret.value <= 100 * call.requestCount

\* the list p is the tail of the list q
IsSuffix(p, q) ==
  /\ Len(p) <= Len(q)
  /\ \A i \in 1..Len(p) : p[i] = q[Len(q) - Len(p) + i]

\* C33: in every snapshot rpm <= rph <= totalRequests (the last one built and
\* the one a build in the current state would return); each timestamp kept in
\* the 60 s list has its counterpart kept in the 3600 s list, and neither list
\* holds more entries than requests were counted.
C33_WindowOrder ==
  LET v == getSnapshot(Metrics, now).value
  IN  /\ v.rpm <= v.rph /\ v.rph <= v.totalRequests
      /\ builds > 0 =>
            /\ lastSnapshot.rpm <= lastSnapshot.rph
            /\ lastSnapshot.rph <= lastSnapshot.totalRequests
      /\ IsSuffix(lastMinuteRequests, lastHourRequests)
      /\ Len(lastHourRequests) <= requestCount

\* a snapshot pushed at 3600000 after three requests: the request recorded at
\* 0 has left both lists, the two recorded at 1 only the minute list
C33_Witness ==
  /\ lastSnapshot.timestamp = HourWindow
  /\ lastSnapshot.rpm = 0 /\ lastSnapshot.rph = 2
  /\ lastSnapshot.totalRequests = 3

\* C34: between handlers the sum of statusCodeCounts equals requestCount minus
\* the number of /events requests received; a subscriber connection is counted
\* in totalRequests, and as a success in the snapshot it is sent, but records
\* neither a status code nor a response time.
C34_EventsHaveNoStatus ==
  /\ [](CountSum(statusCodeCounts, DOMAIN statusCodeCounts)
          = requestCount - connects)
  /\ [][connects' # connects =>
          /\ requestCount' = requestCount + 1
          /\ statusCodeCounts' = statusCodeCounts
          /\ errorCount' = errorCount
          /\ totalResponseTime' = totalResponseTime
          /\ minResponseTime' = minResponseTime
          /\ maxResponseTime' = maxResponseTime
          /\ lastSnapshot'.totalRequests = requestCount + 1
          /\ lastSnapshot'.successCount = requestCount + 1 - errorCount]_vars

\* two subscribers and one page: three requests, one status code recorded
C34_Witness ==
  /\ connects = 2 /\ requestCount = 3
  /\ statusCodeCounts = ("200" :> 1)
  /\ lastSnapshot.successCount = 3

\* C35: in every reachable state the counts in requestsPerEndpoint add up to
\* requestCount; every request increments exactly one endpoint counter, the
\* one keyed by its url, exactly once (a subscriber connection the "/events"
\* counter, a request answered 404 the counter of its unknown url).
C35_EndpointCounts ==
  /\ [](CountSum(requestsPerEndpoint, DOMAIN requestsPerEndpoint) = requestCount)
  /\ [][requestCount' # requestCount =>
          /\ requestCount' = requestCount + 1
          /\ \E url \in Urls :
               /\ requestsPerEndpoint' = Incr(requestsPerEndpoint, url)
               /\ url = "/events" <=> connects' # connects
               /\ url = "/nope" <=> errorCount' # errorCount]_vars

\* three requests to three urls
C35_Witness ==
  /\ requestCount = 3
  /\ requestsPerEndpoint = ("/events" :> 1 @@ "/health" :> 1 @@ "/nope" :> 1)

\* C36: requestCount, totalBytesReceived and totalBytesSent never decrease
\* across any step of the system (request start, body end, response, push,
\* tick, close, snapshot build).
C36_CountersGrow ==
  [][/\ requestCount' >= requestCount
     /\ totalBytesReceived' >= totalBytesReceived
     /\ totalBytesSent' >= totalBytesSent]_vars

\* three requests, two bodies read, a snapshot answered and then pushed, and
\* a subscriber that has closed after its second frame
C36_Witness ==
  /\ requestCount = 3 /\ ended = 2 /\ totalBytesReceived = 5
  /\ builds = 4 /\ lastWrite # 0
  /\ totalBytesSent > 3 * FrameOverhead
  /\ \E s \in Subs : closed[s] /\ frames[s] = 2

\* C37: in server.js cpuUsage returns 0 when the tick difference summed over
\* all cores is 0 (two subscribers' ticks building snapshots back to back with
\* no tick of the OS in between), so the cpu field of every pushed snapshot is
\* a number.
C37_ServerCpuIsNumber ==
  /\ [][(builds' # builds /\ osCpus = lastCpu) =>
          serverCpuUsage(lastCpu, osCpus).value = 0]_vars
  /\ [](builds > 0 => lastSnapshot.cpu \in 0..100)

====
